---- MODULE Spec2Model ----
(***************************************************************************)
(* A model of the analyze / reduce statistics engine of                    *)
(* mostlyai/engine/analysis.py.                                            *)
(*                                                                         *)
(* Four specifications share the variables below:                          *)
(*   SpecSeqLen  direct calls of _analyze_reduce_seq_len                   *)
(*   SpecKeys    direct calls of _analyze_seq_len                          *)
(*   SpecReduce  direct calls of _analyze_reduce on partial-stats files    *)
(*               that are already in the workspace                         *)
(*   Spec        a whole run of analyze                                    *)
(*                                                                         *)
(* A Python dict is modelled with its insertion order: a record            *)
(* [keys |-> sequence of field names, val |-> function on those names].    *)
(***************************************************************************)
EXTENDS Integers, Sequences, FiniteSets, TLC

VARIABLES
    pc,           \* position of the running call
    args,         \* arguments / workspace inputs of the running call
    partials,     \* per table: the part.<id>.json files, in fetch_all order
    artifact,     \* per table: stats.json (NoFile when absent)
    log,          \* per table: what the run did to the table (ghost)
    i,            \* loop index of analyze
    ticks,        \* progress.update calls so far, as <<completed, total>>
    ret           \* result of a direct call

vars == <<pc, args, partials, artifact, log, i, ticks, ret>>

(***************************************************************************)
(* Bounds of the model.                                                    *)
(***************************************************************************)
MaxParts == 2          \* partitions per table
MaxLen == 2            \* longest sequence length in a histogram
MaxRows == 3           \* rows of a key column handed to _analyze_seq_len
MaxKey == 3            \* distinct key values in those rows

(***************************************************************************)
(* Program constants.                                                      *)
(***************************************************************************)
ProtectFloor == 10     \* len(lengths) <= 10: protect all
TrimCount == 5         \* lengths[5:-5]

TGT == "tgt"
CTXFLT == "ctxflt"
CTXSEQ == "ctxseq"
ARGN_PROCESSOR == "argn_processor"
ARGN_TABLE == "argn_table"
ARGN_COLUMN == "argn_column"

\* a file that is not there, and a file holding a document
NoFile == [present |-> FALSE, doc |-> <<>>]
File(doc) == [present |-> TRUE, doc |-> doc]

\* the ghost record of what a run did to a table
NoLog == [reset |-> FALSE, reduced |-> 0, raised |-> 0, writes |-> 0,
          unlinked |-> FALSE, calls |-> <<>>]

(***************************************************************************)
(* Python dicts with insertion order.                                      *)
(***************************************************************************)
EmptyDict == [keys |-> <<>>, val |-> <<>>]

Dict1(k, v) == [keys |-> <<k>>, val |-> (k :> v)]

HasKey(d, k) == k \in DOMAIN d.val

\* a | b : the keys of a keep their place, b's values win, b's new keys follow
DictOr(a, b) ==
    [keys |-> a.keys \o SelectSeq(b.keys, LAMBDA k : k \notin DOMAIN a.val),
     val |-> b.val @@ a.val]

\* d[k] = v
SetItem(d, k, v) == DictOr(d, Dict1(k, v))

SeqToSet(s) == {s[n] : n \in DOMAIN s}

RECURSIVE SumSeq(_)
SumSeq(s) == IF s = <<>> THEN 0 ELSE s[1] + SumSeq(Tail(s))

Min2(a, b) == IF a <= b THEN a ELSE b
Max2(a, b) == IF a >= b THEN a ELSE b

(***************************************************************************)
(* SEQUENCE LENGTH                                                         *)
(* A histogram (cnt_lengths) is a function from lengths to counts; the     *)
(* reducer sums the lengths 0..MaxLen, 0 standing for a key never seen.    *)
(***************************************************************************)
LenDomain == 0..MaxLen

EmptyHist == [l \in LenDomain |-> 0]

\* the summing loop of _analyze_reduce_seq_len
RECURSIVE SumHists(_)
SumHists(stats_list) ==
    IF stats_list = <<>> THEN EmptyHist
    ELSE LET rest == SumHists(Tail(stats_list))
             item == stats_list[1]
         IN  [l \in LenDomain |-> rest[l] + (IF l \in DOMAIN item THEN item[l] ELSE 0)]

\* np.repeat(k, v)
RECURSIVE Repeat(_, _)
Repeat(k, v) == IF v = 0 THEN <<>> ELSE <<k>> \o Repeat(k, v - 1)

\* np.sort(np.concatenate([np.repeat(int(k), v) ...])): every length repeated
\* by its count, ascending
RECURSIVE ExplodeFrom(_, _)
ExplodeFrom(cnt, l) ==
    IF l > MaxLen THEN <<>>
    ELSE Repeat(l, cnt[l]) \o ExplodeFrom(cnt, l + 1)

Explode(cnt) == ExplodeFrom(cnt, 0)

\* lengths[5:-5]
TrimmedAlt(lengths) == SubSeq(lengths, TrimCount, Len(lengths) - TrimCount)
Trimmed(lengths) == SubSeq(lengths, TrimCount + 1, Len(lengths) - TrimCount)

\* the value_protection branch
ProtectAlt(lengths) ==
    IF Len(lengths) < ProtectFloor THEN Repeat(1, ProtectFloor) ELSE Trimmed(lengths)
Protect(lengths) ==
    IF Len(lengths) <= ProtectFloor THEN Repeat(1, ProtectFloor) ELSE Trimmed(lengths)

\* int(np.median(lengths)) of a sorted array of non-negative integers
Median(lengths) ==
    LET n == Len(lengths)
    IN  IF n % 2 = 1 THEN lengths[(n + 1) \div 2]
        ELSE (lengths[n \div 2] + lengths[n \div 2 + 1]) \div 2

\* np.quantile(..., method="inverted_cdf") at q = np.arange(0, 1.1, 0.1)[k]:
\* the sample at 0-based index ceil(n*q - 1), clipped at 0.  The floats
\* 3*0.1, 6*0.1 and 7*0.1 exceed 0.3, 0.6 and 0.7, so that n*q passes the
\* integer n*k/10 where that is one.
DecileIndex(n, k) ==
    LET exact == (n * k + 9) \div 10
        above == IF k \in {3, 6, 7} /\ (n * k) % 10 = 0 THEN 1 ELSE 0
    IN  Max2(exact + above, 1)

Deciles(lengths) ==
    IF Len(lengths) > 0
    THEN [k \in 1..11 |-> lengths[DecileIndex(Len(lengths), k - 1)]]
    ELSE <<>>

\* the local `lengths` of _analyze_reduce_seq_len after the protection branch
SeqLenLengths(stats_list, value_protection) ==
    LET sorted == Explode(SumHists(stats_list))
    IN  IF value_protection THEN Protect(sorted) ELSE sorted

\* _analyze_reduce_seq_len; np.min of an empty array raises ValueError
AnalyzeReduceSeqLen(stats_list, value_protection) ==
    LET lengths == SeqLenLengths(stats_list, value_protection)
    IN  IF lengths = <<>> THEN [error |-> "ValueError"]
        ELSE [error |-> "",
              min |-> lengths[1],
              max |-> lengths[Len(lengths)],
              median |-> Median(lengths),
              deciles |-> Deciles(lengths),
              value_protection |-> value_protection]

(***************************************************************************)
(* ENCODING TYPES                                                          *)
(* The tags of ModelEncodingType that the dispatch chains of               *)
(* _analyze_flat_col and _analyze_reduce know, and the ones subject to     *)
(* value protection.  "unregistered" stands for any other tag.             *)
(***************************************************************************)
VALUE_PROTECTION_ENCODING_TYPES ==
    {"tabular_categorical", "tabular_numeric_digit", "tabular_numeric_discrete",
     "tabular_numeric_binned", "tabular_datetime", "tabular_datetime_relative"}

RegisteredEncodingTypes ==
    {"tabular_categorical", "tabular_numeric_auto", "tabular_numeric_digit",
     "tabular_numeric_discrete", "tabular_numeric_binned", "tabular_datetime",
     "tabular_datetime_relative", "tabular_character", "tabular_lat_long",
     "language_text"}

\* the reducers that take no value_protection argument
UnprotectedReducers == {"tabular_lat_long", "language_text"}

\* ColumnStatistician.reduce: the type-specific fields of the final stats.
\* What a reducer computes is outside the engine; the model keeps what went in.
ReduceStatistician(encoding_type, column_stats_list, value_protection) ==
    LET summary == [partitions |-> Len(column_stats_list),
                    value_protection |-> IF encoding_type \in UnprotectedReducers
                                          THEN FALSE ELSE value_protection]
    IN  IF encoding_type = "language_text"
        THEN DictOr(Dict1("nchar_max", summary), Dict1("nchar_avg", summary))
        ELSE Dict1("cardinalities", summary)

(***************************************************************************)
(* _analyze_reduce                                                         *)
(* A qualified column name <table>::<column> is the record                 *)
(* [table, column]; a partition document is a record whose `columns` is a  *)
(* dict from qualified column names to partial column stats.               *)
(***************************************************************************)
QCol(t, c) == [table |-> t, column |-> c]

\* qualified_column_name.split(TABLE_COLUMN_INFIX)[0]
get_table(qualified_column_name) == qualified_column_name.table

\* list(dict.fromkeys(...)): duplicates dropped, first-seen order kept
RECURSIVE Dedup(_)
Dedup(s) ==
    IF s = <<>> THEN <<>>
    ELSE LET init == Dedup(SubSeq(s, 1, Len(s) - 1))
             last == s[Len(s)]
         IN  IF last \in SeqToSet(init) THEN init ELSE Append(init, last)

get_unique_tables(qualified_column_names) ==
    Dedup([n \in DOMAIN qualified_column_names |-> get_table(qualified_column_names[n])])

\* list.index(x), zero-based
IndexOf(s, x) == (CHOOSE n \in DOMAIN s : s[n] = x /\ \A m \in 1..(n - 1) : s[m] # x) - 1

\* argn_identifiers[c]: (f"t{table index}", f"c{idx}")
argn_identifiers_alt(columns, idx) ==
    LET unique_tables == get_unique_tables(columns)
        t == get_table(columns[idx])
    IN  [table |-> <<"t", IndexOf(unique_tables, t)>>,
         column |-> <<"c", Cardinality({m \in 1..(idx - 1) : get_table(columns[m]) = t})>>]
argn_identifiers(columns, idx) ==
    LET unique_tables == get_unique_tables(columns)
    IN  [table |-> <<"t", IndexOf(unique_tables, get_table(columns[idx]))>>,
         column |-> <<"c", idx - 1>>]

\* set(column_stats.keys()) - {"encoding_type"}  # skip empty partitions
NonDegenerateAlt(column_stats) == SeqToSet(column_stats.keys) # {}
NonDegenerate(column_stats) == SeqToSet(column_stats.keys) \ {"encoding_type"} # {}

get_argn_processor_alt(mode, is_flat) ==
    IF mode = "tgt" THEN TGT ELSE IF is_flat THEN CTXSEQ ELSE CTXFLT
get_argn_processor(mode, is_flat) ==
    IF mode = "tgt" THEN TGT ELSE IF is_flat THEN CTXFLT ELSE CTXSEQ

\* the statements of the column loop after the dispatch (vp is the
\* value_protection argument of _analyze_reduce)
FinishColumnAlt(stats_col, encoding_type, column_stats_list, columns, idx, mode, vp) ==
    LET s1 == IF encoding_type \in VALUE_PROTECTION_ENCODING_TYPES
              THEN DictOr(Dict1("value_protection", vp), stats_col)
              ELSE stats_col
        s2 == DictOr(Dict1("encoding_type", encoding_type), s1)
        is_flat == ~HasKey(column_stats_list[1], "seq_len")
        ids == argn_identifiers(columns, idx)
        s3 == SetItem(s2, ARGN_PROCESSOR, get_argn_processor(mode, is_flat))
        s4 == SetItem(s3, ARGN_TABLE, ids.table)
        s5 == SetItem(s4, ARGN_COLUMN, ids.column)
    IN  IF is_flat THEN s5
        ELSE SetItem(s5, "seq_len",
                     AnalyzeReduceSeqLen(<<column_stats_list[1].val["seq_len"]>>, TRUE))
FinishColumn(stats_col, encoding_type, column_stats_list, columns, idx, mode, vp) ==
    LET s1 == DictOr(Dict1("encoding_type", encoding_type), stats_col)
        s2 == IF encoding_type \in VALUE_PROTECTION_ENCODING_TYPES
              THEN DictOr(Dict1("value_protection", vp), s1)
              ELSE s1
        is_flat == ~HasKey(column_stats_list[1], "seq_len")
        ids == argn_identifiers(columns, idx)
        s3 == SetItem(s2, ARGN_PROCESSOR, get_argn_processor(mode, is_flat))
        s4 == SetItem(s3, ARGN_TABLE, ids.table)
        s5 == SetItem(s4, ARGN_COLUMN, ids.column)
    IN  IF is_flat THEN s5
        ELSE SetItem(s5, "seq_len",
                     AnalyzeReduceSeqLen(<<column_stats_list[1].val["seq_len"]>>, TRUE))

\* one pass of the column loop: the stats of the column, whether a reducer
\* was called, and whether the pass raised
ReduceColumn(stats_list, columns, idx, mode, value_protection) ==
    LET column == columns[idx]
        encoding_type == stats_list[1].columns.val[column].val["encoding_type"]
        all == [p \in DOMAIN stats_list |-> stats_list[p].columns.val[column]]
        column_stats_list == SelectSeq(all, NonDegenerate)
    IN  IF column_stats_list = <<>>
        THEN [error |-> "", called |-> FALSE,
              doc |-> Dict1("encoding_type", encoding_type)]
        ELSE IF encoding_type \notin RegisteredEncodingTypes
        THEN [error |-> "RuntimeError", called |-> FALSE, doc |-> EmptyDict]
        ELSE [error |-> "", called |-> TRUE,
              doc |-> FinishColumn(
                          ReduceStatistician(encoding_type, column_stats_list,
                                             value_protection),
                          encoding_type, column_stats_list, columns, idx, mode,
                          value_protection)]

\* the table-level fields of the target artifact
TargetFieldsAlt(stats_list) ==
    LET seq_len == AnalyzeReduceSeqLen(
                       [p \in DOMAIN stats_list |-> stats_list[p].seq_len], TRUE)
    IN  [no_of_training_records |->
             SumSeq([p \in DOMAIN stats_list |-> stats_list[p].no_of_training_records]),
         no_of_validation_records |->
             SumSeq([p \in DOMAIN stats_list |-> stats_list[p].no_of_validation_records]),
         seq_len |-> seq_len,
         is_sequential |-> (seq_len.max # 1)]
TargetFields(stats_list) ==
    LET seq_len == AnalyzeReduceSeqLen(
                       [p \in DOMAIN stats_list |-> stats_list[p].seq_len], TRUE)
    IN  [no_of_training_records |->
             SumSeq([p \in DOMAIN stats_list |-> stats_list[p].no_of_training_records]),
         no_of_validation_records |->
             SumSeq([p \in DOMAIN stats_list |-> stats_list[p].no_of_validation_records]),
         seq_len |-> seq_len,
         is_sequential |-> (seq_len.min # 1 \/ seq_len.max # 1)]

\* _analyze_reduce up to out_stats.write: the document to write, or the
\* error raised; calls lists the columns a reducer was called for
AnalyzeReduce(stats_list, keys, mode, value_protection) ==
    IF stats_list = <<>>
    THEN [error |-> "IndexError", calls |-> <<>>, stats |-> <<>>]
    ELSE
    LET columns == stats_list[1].columns.keys
        res == [idx \in DOMAIN columns |->
                    ReduceColumn(stats_list, columns, idx, mode, value_protection)]
        failed == {idx \in DOMAIN columns : res[idx].error # ""}
        stop == IF failed = {} THEN Len(columns) + 1
                ELSE CHOOSE idx \in failed : \A m \in failed : idx <= m
        calls == SelectSeq(SubSeq(columns, 1, Min2(stop, Len(columns))),
                           LAMBDA c : \E idx \in DOMAIN columns :
                               /\ columns[idx] = c
                               /\ idx < stop
                               /\ res[idx].called)
        cols == [keys |-> columns,
                 val |-> [c \in SeqToSet(columns) |->
                              res[CHOOSE idx \in DOMAIN columns : columns[idx] = c].doc]]
    IN  IF failed # {}
        THEN [error |-> res[stop].error, calls |-> calls, stats |-> <<>>]
        ELSE [error |-> "", calls |-> calls,
              stats |-> IF mode = "tgt"
                        THEN LET t == TargetFields(stats_list)
                             IN  [columns |-> cols,
                                  no_of_training_records |-> t.no_of_training_records,
                                  no_of_validation_records |-> t.no_of_validation_records,
                                  seq_len |-> t.seq_len,
                                  is_sequential |-> t.is_sequential,
                                  keys |-> keys]
                        ELSE [columns |-> cols, keys |-> keys]]

\* _analyze_reduce as a step on the workspace: out_stats.write(stats) is its
\* last statement, reached only when nothing raised.  log counts the started
\* reductions, the ones that raised and the writes of the artifact.
ReduceStepAlt(mode, keys, value_protection, returned, raised) ==
    LET r == AnalyzeReduce(partials[mode], keys, mode, value_protection)
    IN  /\ artifact' = [artifact EXCEPT ![mode] = File(r.stats)]
        /\ log' = [log EXCEPT ![mode] =
                       [@ EXCEPT !.reduced = @ + 1,
                                 !.raised = @ + (IF r.error = "" THEN 0 ELSE 1),
                                 !.writes = @ + 1,
                                 !.calls = r.calls]]
        /\ ret' = [error |-> r.error]
        /\ pc' = IF r.error = "" THEN returned ELSE raised
ReduceStep(mode, keys, value_protection, returned, raised) ==
    LET r == AnalyzeReduce(partials[mode], keys, mode, value_protection)
    IN  /\ artifact' = IF r.error = ""
                       THEN [artifact EXCEPT ![mode] = File(r.stats)]
                       ELSE artifact
        /\ log' = [log EXCEPT ![mode] =
                       [@ EXCEPT !.reduced = @ + 1,
                                 !.raised = @ + (IF r.error = "" THEN 0 ELSE 1),
                                 !.writes = @ + (IF r.error = "" THEN 1 ELSE 0),
                                 !.calls = r.calls]]
        /\ ret' = [error |-> r.error]
        /\ pc' = IF r.error = "" THEN returned ELSE raised

(***************************************************************************)
(* SpecSeqLen: _analyze_reduce_seq_len called on any list of at most       *)
(* MaxParts histograms.  Counts are 0, 1 or 6, so that totals fall on both *)
(* sides of the floor of 10 samples.                                       *)
(***************************************************************************)
Counts == {0, 1, 6}

HistSet == [LenDomain -> Counts]

HistLists == UNION {[1..n -> HistSet] : n \in 0..MaxParts}

InitSeqLen ==
    /\ pc = "call_reduce_seq_len"
    /\ args \in [stats_list : HistLists, value_protection : BOOLEAN]
    /\ partials = [tgt |-> <<>>, ctx |-> <<>>]
    /\ artifact = [tgt |-> NoFile, ctx |-> NoFile]
    /\ log = [tgt |-> NoLog, ctx |-> NoLog]
    /\ i = 0
    /\ ticks = <<>>
    /\ ret = [error |-> "pending"]

\* ret.lengths is the function's local array, kept beside the returned summary
CallAnalyzeReduceSeqLen ==
    /\ pc = "call_reduce_seq_len"
    /\ pc' = "returned_seq_len"
    /\ ret' = [out |-> AnalyzeReduceSeqLen(args.stats_list, args.value_protection),
               lengths |-> SeqLenLengths(args.stats_list, args.value_protection)]
    /\ UNCHANGED <<args, partials, artifact, log, i, ticks>>

NextSeqLen == CallAnalyzeReduceSeqLen

SpecSeqLen == InitSeqLen /\ [][NextSeqLen]_vars

(***************************************************************************)
(* Partial stats of one column in one partition, as _analyze_col leaves    *)
(* them: {"encoding_type"} alone for an empty column, else the fields of   *)
(* ColumnStatistician.analyze (kept as one field, cnt_values) and, for a   *)
(* sequential column, seq_len.                                             *)
(***************************************************************************)
PartialStats(encoding_type, kind, hist) ==
    LET stats == Dict1("encoding_type", encoding_type)
        flat == Dict1("cnt_values", "partial")
    IN  IF kind = "empty" THEN stats
        ELSE IF kind = "flat" THEN DictOr(stats, flat)
        ELSE DictOr(stats, DictOr(flat, Dict1("seq_len", hist)))

(***************************************************************************)
(* SpecReduce: _analyze_reduce called on the partial-stats files of one    *)
(* table.  The schema is a list of one or two of three columns, one per    *)
(* kind of encoding type; every column is, in every partition, empty, flat *)
(* or sequential.  The seq_len histogram of a sequential column differs    *)
(* from one partition to the next.                                         *)
(***************************************************************************)
Columns == {QCol("A", "x"), QCol("B", "y"), QCol("A", "z")}

EncodingTypeOf(c) ==
    IF c = QCol("A", "x") THEN "tabular_categorical"
    ELSE IF c = QCol("B", "y") THEN "tabular_character"
    ELSE "unregistered"

ColumnOrders ==
    {<<a>> : a \in Columns}
        \cup {o \in {<<a, b>> : a \in Columns, b \in Columns} : o[1] # o[2]}

Kinds == {"empty", "flat", "seq"}

\* twelve parents with one child each
SeqHistA == [l \in LenDomain |-> IF l = 1 THEN 12 ELSE 0]
\* one parent without children, twelve with MaxLen children
SeqHistB == [l \in LenDomain |-> IF l = MaxLen THEN 12 ELSE IF l = 0 THEN 1 ELSE 0]

\* the histogram of a sequential column in partition p
HistOfPartition(p) == IF p % 2 = 1 THEN SeqHistA ELSE SeqHistB

\* the table-level seq_len histogram of a target partition
TableHists == {"flat", "optional", "mixed"}
TableHist(choice) ==
    IF choice = "flat" THEN [l \in LenDomain |-> IF l = 1 THEN 6 ELSE 0]
    ELSE IF choice = "optional" THEN [l \in LenDomain |-> IF l <= 1 THEN 6 ELSE 0]
    ELSE [l \in LenDomain |-> IF l = 0 THEN 3 ELSE IF l = MaxLen THEN 6 ELSE 0]

\* the document of partition p: cells[p][idx] is the kind of column idx
PartitionDoc(mode, columns, cells, table_hist, p) ==
    LET cols == [keys |-> columns,
                 val |-> [c \in SeqToSet(columns) |->
                     LET idx == CHOOSE n \in DOMAIN columns : columns[n] = c
                     IN  PartialStats(EncodingTypeOf(c), cells[p][idx],
                                      HistOfPartition(p))]]
    IN  IF mode = "tgt"
        THEN [no_of_training_records |-> IF p = 1 THEN 6 ELSE 0,
              no_of_validation_records |-> IF p = 1 THEN 0 ELSE 6,
              seq_len |-> TableHist(table_hist),
              columns |-> cols]
        ELSE [columns |-> cols]

ReduceInputs ==
    UNION {[mode : {"tgt", "ctx"}, value_protection : BOOLEAN, columns : {columns},
            table_hist : TableHists,
            cells : UNION {[1..n -> [DOMAIN columns -> Kinds]] : n \in 0..MaxParts}]
           : columns \in ColumnOrders}

KeysOf(mode) == IF mode = "tgt" THEN [context_key |-> "id"] ELSE [primary_key |-> "id"]

InitReduce ==
    /\ pc = "call_reduce"
    /\ args \in {a \in ReduceInputs : a.mode = "ctx" => a.table_hist = "flat"}
    /\ partials = [t \in {"tgt", "ctx"} |->
                      IF t = args.mode
                      THEN [p \in DOMAIN args.cells |->
                                PartitionDoc(args.mode, args.columns, args.cells,
                                             args.table_hist, p)]
                      ELSE <<>>]
    /\ artifact = [tgt |-> NoFile, ctx |-> NoFile]
    /\ log = [tgt |-> NoLog, ctx |-> NoLog]
    /\ i = 0
    /\ ticks = <<>>
    /\ ret = [error |-> "pending"]

CallAnalyzeReduce ==
    /\ pc = "call_reduce"
    /\ ReduceStep(args.mode, KeysOf(args.mode), args.value_protection,
                  "returned_reduce", "returned_reduce")
    /\ UNCHANGED <<args, partials, i, ticks>>

NextReduce == CallAnalyzeReduce

SpecReduce == InitReduce /\ [][NextReduce]_vars

(***************************************************************************)
(* PARTITION ANALYSIS                                                      *)
(***************************************************************************)
\* keys.drop_duplicates()
drop_duplicates_alt(keys) == keys
drop_duplicates(keys) == Dedup(keys)

\* the number of rows of `keys` that hold key k
Occurrences(keys, k) == Cardinality({n \in DOMAIN keys : keys[n] = k})

\* values.value_counts().to_dict(): the values that occur, each with the
\* number of keys that hold it
value_counts(values) ==
    [l \in {values[k] : k \in DOMAIN values} |->
        Cardinality({k \in DOMAIN values : values[k] = l})]

\* _analyze_seq_len: one extra row per unique ctx_primary_key, the rows
\* counted per key, one taken off each count, and the counts tallied
AnalyzeSeqLenAlt(tgt_context_keys, ctx_primary_keys) ==
    LET primary == drop_duplicates(ctx_primary_keys)
        df_keys == tgt_context_keys \o primary
        extra_rows == 0
        values == [k \in SeqToSet(df_keys) |-> Occurrences(df_keys, k) - extra_rows]
    IN  value_counts(values)
AnalyzeSeqLen(tgt_context_keys, ctx_primary_keys) ==
    LET primary == drop_duplicates(ctx_primary_keys)
        df_keys == tgt_context_keys \o primary
        extra_rows == 1
        values == [k \in SeqToSet(df_keys) |-> Occurrences(df_keys, k) - extra_rows]
    IN  value_counts(values)

\* _analyze_flat_col: the dispatch on the encoding type
AnalyzeFlatCol(encoding_type) ==
    IF encoding_type \in RegisteredEncodingTypes
    THEN [error |-> "", stats |-> Dict1("cnt_values", "partial")]
    ELSE [error |-> "RuntimeError", stats |-> EmptyDict]

\* _analyze_col on the values of one column of one partition: `empty` is
\* values.empty, `sequential` is is_sequential(values), hist the histogram
\* _analyze_seq_len finds for the exploded values
AnalyzeColAlt(encoding_type, empty, sequential, hist) ==
    LET stats == Dict1("encoding_type", encoding_type)
        flat == AnalyzeFlatCol(encoding_type)
    IN  IF empty \/ flat.error # "" THEN [error |-> "", doc |-> stats]
        ELSE IF sequential
        THEN [error |-> "",
              doc |-> DictOr(stats, DictOr(flat.stats, Dict1("seq_len", hist)))]
        ELSE [error |-> "", doc |-> DictOr(stats, flat.stats)]
AnalyzeCol(encoding_type, empty, sequential, hist) ==
    LET stats == Dict1("encoding_type", encoding_type)
        flat == AnalyzeFlatCol(encoding_type)
    IN  IF empty THEN [error |-> "", doc |-> stats]
        ELSE IF flat.error # "" THEN [error |-> flat.error, doc |-> EmptyDict]
        ELSE IF sequential
        THEN [error |-> "",
              doc |-> DictOr(stats, DictOr(flat.stats, Dict1("seq_len", hist)))]
        ELSE [error |-> "", doc |-> DictOr(stats, flat.stats)]

\* the columns of one table of one partition, analyzed: the "columns" dict,
\* or the error of the first column that raised
AnalyzeColumns(columns, encoding_types, list_columns, empty, hist) ==
    LET res == [c \in SeqToSet(columns) |->
                    AnalyzeCol(encoding_types[c], empty, c \in list_columns, hist)]
        failed == {c \in SeqToSet(columns) : res[c].error # ""}
    IN  IF failed # {}
        THEN [error |-> "RuntimeError", columns |-> EmptyDict]
        ELSE [error |-> "",
              columns |-> [keys |-> columns,
                           val |-> [c \in SeqToSet(columns) |-> res[c].doc]]]

\* _analyze_partition on one target file and, with context, one context
\* file: the documents written (none, the target's, or both) and the error
\* raised, if any.  A file is [partition_id, keys]: its id and the context
\* keys (target) or primary keys (context) of its rows.
AnalyzePartitionAlt(tgt_file, ctx_file, has_context, with_context_key, tgt_columns, ctx_columns, encoding_types, list_columns, hist) ==
    LET partition_id == tgt_file.partition_id
        rows == Len(tgt_file.keys)
        tgt_context_keys == IF with_context_key THEN tgt_file.keys
                            ELSE [n \in 1..rows |-> n - 1]
        ctx_primary_keys == IF has_context THEN ctx_file.keys
                            ELSE drop_duplicates(tgt_context_keys)
        tgt_cols == AnalyzeColumns(tgt_columns, encoding_types, list_columns,
                                   rows = 0, hist)
        tgt_seq_len == AnalyzeSeqLen(tgt_context_keys, ctx_primary_keys)
        size == Len(ctx_primary_keys)
        tgt_stats ==
            [no_of_training_records |-> IF partition_id.split = "val" THEN 0 ELSE size,
             no_of_validation_records |-> IF partition_id.split = "val" THEN size ELSE 0,
             seq_len |-> tgt_seq_len,
             columns |-> tgt_cols.columns]
        ctx_cols == AnalyzeColumns(ctx_columns, encoding_types, list_columns,
                                   Len(ctx_file.keys) = 0, hist)
    IN  IF tgt_cols.error # ""
        THEN [error |-> tgt_cols.error, tgt |-> <<>>, ctx |-> <<>>]
        ELSE IF partition_id.split \notin {"val", "trn"}
        THEN [error |-> "RuntimeError", tgt |-> <<>>, ctx |-> <<>>]
        ELSE IF ~has_context
        THEN [error |-> "", tgt |-> <<tgt_stats>>, ctx |-> <<>>]
        ELSE IF ctx_cols.error # ""
        THEN [error |-> ctx_cols.error, tgt |-> <<tgt_stats>>, ctx |-> <<>>]
        ELSE [error |-> "", tgt |-> <<tgt_stats>>,
              ctx |-> <<[columns |-> ctx_cols.columns]>>]
AnalyzePartition(tgt_file, ctx_file, has_context, with_context_key, tgt_columns, ctx_columns, encoding_types, list_columns, hist) ==
    LET partition_id == tgt_file.partition_id
        rows == Len(tgt_file.keys)
        tgt_context_keys == IF with_context_key THEN tgt_file.keys
                            ELSE [n \in 1..rows |-> n - 1]
        ctx_primary_keys == IF has_context THEN ctx_file.keys
                            ELSE drop_duplicates(tgt_context_keys)
        tgt_cols == AnalyzeColumns(tgt_columns, encoding_types, list_columns,
                                   rows = 0, hist)
        tgt_seq_len == AnalyzeSeqLen(tgt_context_keys, ctx_primary_keys)
        size == Len(ctx_primary_keys)
        tgt_stats ==
            [no_of_training_records |-> IF partition_id.split = "val" THEN 0 ELSE size,
             no_of_validation_records |-> IF partition_id.split = "val" THEN size ELSE 0,
             seq_len |-> tgt_seq_len,
             columns |-> tgt_cols.columns]
        ctx_cols == AnalyzeColumns(ctx_columns, encoding_types, list_columns,
                                   Len(ctx_file.keys) = 0, hist)
    IN  IF tgt_cols.error # ""
        THEN [error |-> tgt_cols.error, tgt |-> <<>>, ctx |-> <<>>]
        ELSE IF partition_id.split \notin {"val", "trn"}
        THEN [error |-> "RuntimeError", tgt |-> <<>>, ctx |-> <<>>]
        ELSE IF ~has_context
        THEN [error |-> "", tgt |-> <<tgt_stats>>, ctx |-> <<>>]
        ELSE IF partition_id # ctx_file.partition_id
        THEN [error |-> "RuntimeError", tgt |-> <<tgt_stats>>, ctx |-> <<>>]
        ELSE IF ctx_cols.error # ""
        THEN [error |-> ctx_cols.error, tgt |-> <<tgt_stats>>, ctx |-> <<>>]
        ELSE [error |-> "", tgt |-> <<tgt_stats>>,
              ctx |-> <<[columns |-> ctx_cols.columns]>>]

(***************************************************************************)
(* Spec: one run of analyze on a workspace.                                *)
(*                                                                         *)
(* The workspace holds at most MaxParts partitions.  A partition is one of *)
(* six kinds, which give the split tag of its id, the context keys of its  *)
(* target rows, the primary keys of its context rows and whether the       *)
(* context file at the same position carries the same id.  With context,   *)
(* the context table may lack its last file.  Without context, the target  *)
(* table has a context key column or none.  One of three schemas gives the *)
(* columns of the two tables; a stale workspace holds the files of an      *)
(* earlier run.                                                            *)
(***************************************************************************)
PartitionKinds == {"trn", "val", "empty", "childless", "nosplit", "mismatch"}

SplitOf(kind) ==
    IF kind = "val" THEN "val" ELSE IF kind = "nosplit" THEN "none" ELSE "trn"

\* the context keys of the target rows
TgtKeysOf(kind) ==
    IF kind \in {"empty", "childless"} THEN <<>>
    ELSE IF kind = "val" THEN <<1>>
    ELSE <<1, 1, 2>>

\* the primary keys of the context rows
CtxKeysOf(kind) ==
    IF kind = "empty" THEN <<>>
    ELSE IF kind = "val" THEN <<1>>
    ELSE <<1, 2, 3>>

Schemas == {"registered", "tgt_unregistered", "ctx_unregistered"}

\* workspace.tgt_encoding_types.read() and workspace.ctx_encoding_types.read():
\* the columns in order; EncodingTypeOf gives their tags
TgtColumns(schema) ==
    IF schema = "tgt_unregistered" THEN <<QCol("A", "x"), QCol("A", "z")>>
    ELSE <<QCol("A", "x")>>
CtxColumns(schema) ==
    IF schema = "ctx_unregistered" THEN <<QCol("B", "y"), QCol("A", "z")>>
    ELSE <<QCol("B", "y"), QCol("A", "x")>>

\* the columns whose values are lists
ListColumns == {QCol("B", "y")}

EncodingTypes == [c \in Columns |-> EncodingTypeOf(c)]

PartitionLists == UNION {[1..n -> PartitionKinds] : n \in 0..MaxParts}

\* workspace.tgt_data.fetch_all()
tgt_pqt_partitions ==
    [n \in DOMAIN args.parts |->
        [partition_id |-> [no |-> n, split |-> SplitOf(args.parts[n])],
         keys |-> TgtKeysOf(args.parts[n])]]

\* workspace.ctx_data.fetch_all()
ctx_pqt_partitions ==
    [n \in 1..(Len(args.parts) - (IF args.ctx_short THEN 1 ELSE 0)) |->
        [partition_id |-> [no |-> n,
                           split |-> IF args.parts[n] = "mismatch" THEN "val"
                                     ELSE SplitOf(args.parts[n])],
         keys |-> CtxKeysOf(args.parts[n])]]

\* the tables the run works on
RunTables == IF args.has_context THEN {"tgt", "ctx"} ELSE {"tgt"}

StaleDoc == [columns |-> EmptyDict, keys |-> [stale |-> "stale"]]

AnalyzeInputs ==
    {a \in [has_context : BOOLEAN, with_context_key : BOOLEAN,
            value_protection : BOOLEAN, schema : Schemas, parts : PartitionLists,
            ctx_short : BOOLEAN, stale : BOOLEAN] :
        /\ a.has_context => a.with_context_key
        /\ a.ctx_short => (a.has_context /\ a.parts # <<>>)}

Init ==
    /\ pc = "start"
    /\ args \in AnalyzeInputs
    /\ partials = IF args.stale THEN [tgt |-> <<StaleDoc>>, ctx |-> <<StaleDoc>>]
                  ELSE [tgt |-> <<>>, ctx |-> <<>>]
    /\ artifact = IF args.stale THEN [tgt |-> File(StaleDoc), ctx |-> File(StaleDoc)]
                  ELSE [tgt |-> NoFile, ctx |-> NoFile]
    /\ log = [tgt |-> NoLog, ctx |-> NoLog]
    /\ i = 0
    /\ ticks = <<>>
    /\ ret = [error |-> "pending"]

\* the directories analyze resets before it reads the partitions
ResetTablesAlt(has_context) == IF has_context THEN {"ctx"} ELSE {}
ResetTables(has_context) == IF has_context THEN {"tgt", "ctx"} ELSE {"tgt"}

\* analyze up to the partition loop: the directories are reset, the
\* partitions fetched and their numbers compared
Begin ==
    /\ pc = "start"
    /\ artifact' = [t \in {"tgt", "ctx"} |->
                       IF t \in ResetTables(args.has_context) THEN NoFile
                       ELSE artifact[t]]
    /\ partials' = [t \in {"tgt", "ctx"} |->
                       IF t \in ResetTables(args.has_context) THEN <<>>
                       ELSE partials[t]]
    /\ log' = [t \in {"tgt", "ctx"} |->
                  [log[t] EXCEPT !.reset = t \in ResetTables(args.has_context)]]
    /\ IF args.has_context /\ Len(tgt_pqt_partitions) # Len(ctx_pqt_partitions)
       THEN pc' = "failed" /\ ret' = [error |-> "RuntimeError"]
       ELSE pc' = "partitions" /\ ret' = ret
    /\ UNCHANGED <<args, i, ticks>>

\* one pass of the partition loop: _analyze_partition, then progress.update
AnalyzePartitionStep ==
    /\ pc = "partitions"
    /\ i < Len(tgt_pqt_partitions)
    /\ LET r == AnalyzePartition(
                    tgt_pqt_partitions[i + 1],
                    IF args.has_context THEN ctx_pqt_partitions[i + 1]
                    ELSE [partition_id |-> [no |-> 0, split |-> "none"], keys |-> <<>>],
                    args.has_context, args.with_context_key,
                    TgtColumns(args.schema), CtxColumns(args.schema),
                    EncodingTypes, ListColumns, HistOfPartition(i + 1))
       IN  /\ partials' = [tgt |-> partials.tgt \o r.tgt, ctx |-> partials.ctx \o r.ctx]
           /\ IF r.error # ""
              THEN /\ pc' = "failed"
                   /\ ret' = [error |-> r.error]
                   /\ UNCHANGED <<i, ticks>>
              ELSE /\ pc' = "partitions"
                   /\ i' = i + 1
                   /\ ticks' = Append(ticks, <<i, Len(tgt_pqt_partitions) + 1>>)
                   /\ ret' = ret
    /\ UNCHANGED <<args, artifact, log>>

\* workspace.tgt_keys.read() and workspace.ctx_keys.read()
tgt_keys == IF args.with_context_key THEN [context_key |-> "id"] ELSE <<>>
ctx_keys == [primary_key |-> "id"]

\* _analyze_reduce of the target table, after the last partition
ReduceTgt ==
    /\ pc = "partitions"
    /\ i = Len(tgt_pqt_partitions)
    /\ ReduceStep("tgt", tgt_keys, args.value_protection,
                  IF args.has_context THEN "reduce_ctx" ELSE "cleanup_tgt", "failed")
    /\ UNCHANGED <<args, partials, i, ticks>>

\* _analyze_reduce of the context table: always protect context values
ReduceCtxAlt ==
    /\ pc = "reduce_ctx"
    /\ ReduceStep("ctx", ctx_keys, args.value_protection, "cleanup_tgt", "failed")
    /\ UNCHANGED <<args, partials, i, ticks>>
ReduceCtx ==
    /\ pc = "reduce_ctx"
    /\ ReduceStep("ctx", ctx_keys, TRUE, "cleanup_tgt", "failed")
    /\ UNCHANGED <<args, partials, i, ticks>>

\* the tables whose partition-wise stats files the clean-up unlinks
CleanupTablesAlt(has_context) == IF has_context THEN {"tgt", "ctx"} ELSE {"tgt"}
CleanupTables(has_context) == {"tgt", "ctx"}

\* for file in workspace.tgt_all_stats.fetch_all(): file.unlink()
CleanupTgt ==
    /\ pc = "cleanup_tgt"
    /\ pc' = "cleanup_ctx"
    /\ IF "tgt" \in CleanupTables(args.has_context)
       THEN /\ partials' = [partials EXCEPT !.tgt = <<>>]
            /\ log' = [log EXCEPT !.tgt.unlinked = TRUE]
       ELSE UNCHANGED <<partials, log>>
    /\ UNCHANGED <<args, artifact, i, ticks, ret>>

\* for file in workspace.ctx_all_stats.fetch_all(): file.unlink()
CleanupCtx ==
    /\ pc = "cleanup_ctx"
    /\ pc' = "exit"
    /\ IF "ctx" \in CleanupTables(args.has_context)
       THEN /\ partials' = [partials EXCEPT !.ctx = <<>>]
            /\ log' = [log EXCEPT !.ctx.unlinked = TRUE]
       ELSE UNCHANGED <<partials, log>>
    /\ UNCHANGED <<args, artifact, i, ticks, ret>>

\* the end of the with block: ProgressCallbackWrapper leaves with a final
\* tick, and analyze returns
Exit ==
    /\ pc = "exit"
    /\ pc' = "done"
    /\ ticks' = Append(ticks, <<Len(tgt_pqt_partitions) + 1, Len(tgt_pqt_partitions) + 1>>)
    /\ ret' = [error |-> ""]
    /\ UNCHANGED <<args, partials, artifact, log, i>>

Next ==
    \/ Begin
    \/ AnalyzePartitionStep
    \/ ReduceTgt
    \/ ReduceCtx
    \/ CleanupTgt
    \/ CleanupCtx
    \/ Exit

Spec == Init /\ [][Next]_vars

(***************************************************************************)
(* SpecKeys: _analyze_seq_len called on any column of at most MaxRows      *)
(* child-linking keys and any column of at most MaxRows parent keys, which *)
(* may repeat a key and need not hold every key of the children.           *)
(***************************************************************************)
KeyColumns == UNION {[1..n -> 1..MaxKey] : n \in 0..MaxRows}

InitKeys ==
    /\ pc = "call_seq_len"
    /\ args \in [tgt_context_keys : KeyColumns, ctx_primary_keys : KeyColumns]
    /\ partials = [tgt |-> <<>>, ctx |-> <<>>]
    /\ artifact = [tgt |-> NoFile, ctx |-> NoFile]
    /\ log = [tgt |-> NoLog, ctx |-> NoLog]
    /\ i = 0
    /\ ticks = <<>>
    /\ ret = [error |-> "pending"]

CallAnalyzeSeqLen ==
    /\ pc = "call_seq_len"
    /\ pc' = "returned_cnt_lengths"
    /\ ret' = [cnt_lengths |-> AnalyzeSeqLen(args.tgt_context_keys, args.ctx_primary_keys)]
    /\ UNCHANGED <<args, partials, artifact, log, i, ticks>>

NextKeys == CallAnalyzeSeqLen

SpecKeys == InitKeys /\ [][NextKeys]_vars

(***************************************************************************)
(* Claims about _analyze_reduce_seq_len (SpecSeqLen).                      *)
(***************************************************************************)
\* the number of samples of length l in all histograms of the call
SamplesAt(l) == SumSeq([p \in DOMAIN args.stats_list |-> args.stats_list[p][l]])

\* the total sample count N of the call
SampleCount == SumSeq([l \in 1..(MaxLen + 1) |-> SamplesAt(l - 1)])

\* the number of samples of length at most l
SamplesUpTo(l) == SumSeq([m \in 1..(l + 1) |-> SamplesAt(m - 1)])

\* the k-th smallest and the k-th largest sample, by counting
KthSmallest(k) == CHOOSE l \in LenDomain : SamplesUpTo(l - 1) < k /\ k <= SamplesUpTo(l)
KthLargest(k) == KthSmallest(SampleCount - k + 1)

AllOnes(n) == [k \in 1..n |-> 1]

\* C2: with protection enabled and a total sample count N <= 10 (N = 0
\* included), the summary is min = max = median = 1 with eleven deciles all
\* equal to 1, whatever the histograms hold.
C2_ProtectionFloor ==
    (pc = "returned_seq_len" /\ args.value_protection /\ SampleCount <= 10)
        => /\ ret.out.error = ""
           /\ ret.out.min = 1
           /\ ret.out.max = 1
           /\ ret.out.median = 1
           /\ ret.out.deciles = AllOnes(11)

\* a protected call with exactly 10 samples, most of them of length 0 and
\* some of length MaxLen
C2_Witness ==
    /\ pc = "returned_seq_len"
    /\ args.value_protection
    /\ SampleCount = 10
    /\ SamplesAt(0) >= 6
    /\ SamplesAt(MaxLen) > 0
    /\ ret.out.min = 1

\* C3: with protection enabled and N > 10, the statistics are those of the
\* sorted samples without the 5 smallest and the 5 largest: min is the 6th
\* smallest sample, max the 6th largest, and N - 10 samples remain.
C3_TrimFive ==
    (pc = "returned_seq_len" /\ args.value_protection /\ SampleCount > 10)
        => /\ ret.out.error = ""
           /\ ret.out.min = KthSmallest(6)
           /\ ret.out.max = KthLargest(6)
           /\ Len(ret.lengths) = SampleCount - 10
           /\ \A n \in DOMAIN ret.lengths : ret.lengths[n] = KthSmallest(n + 5)

\* a protected call with more than 10 samples in which the trimming moved both
\* the minimum and the maximum
C3_Witness ==
    /\ pc = "returned_seq_len"
    /\ args.value_protection
    /\ SampleCount > 10
    /\ KthSmallest(1) < ret.out.min
    /\ ret.out.max < KthLargest(1)

(***************************************************************************)
(* Claims about _analyze_reduce (SpecReduce).                              *)
(***************************************************************************)
\* the partial stats of column c in the partitions of the reduced table
PartialsOf(c) ==
    [p \in DOMAIN partials[args.mode] |-> partials[args.mode][p].columns.val[c]]

\* the partitions in which column c has more than its encoding_type
NonEmptyPartitions(c) ==
    {p \in DOMAIN partials[args.mode] : DOMAIN PartialsOf(c)[p].val # {"encoding_type"}}

\* a reduction that returned and wrote its artifact
ReduceWrote ==
    /\ pc = "returned_reduce"
    /\ ret.error = ""
    /\ artifact[args.mode].present

\* the reduced stats of column c in the artifact
Reduced(c) == artifact[args.mode].doc.columns.val[c]

\* the seq_len histograms of column c, one per partition of ps, in order
RECURSIVE HistsOf(_, _, _)
HistsOf(c, p, ps) ==
    IF p > Len(partials[args.mode]) THEN <<>>
    ELSE (IF p \in ps THEN <<PartialsOf(c)[p].val["seq_len"]>> ELSE <<>>)
             \o HistsOf(c, p + 1, ps)

\* C1: the seq_len summary of a sequential column is that of the per-length
\* sum of the seq_len histograms of all partitions in which the column is
\* non-degenerate, not of one partition's histogram.
C1_SeqLenOfAllPartitions ==
    ReduceWrote =>
        \A c \in SeqToSet(args.columns) :
            (/\ NonEmptyPartitions(c) # {}
             /\ \A p \in NonEmptyPartitions(c) : "seq_len" \in DOMAIN PartialsOf(c)[p].val)
                => /\ "seq_len" \in DOMAIN Reduced(c).val
                   /\ Reduced(c).val["seq_len"]
                          = AnalyzeReduceSeqLen(HistsOf(c, 1, NonEmptyPartitions(c)), TRUE)

\* C4: a column that is degenerate in every partition is reduced to exactly
\* {encoding_type: E}: no value_protection, no processor identifiers, no
\* seq_len, and no reducer is called for it.
C4_DegenerateColumn ==
    ReduceWrote =>
        \A c \in SeqToSet(args.columns) :
            NonEmptyPartitions(c) = {}
                => /\ Reduced(c).keys = <<"encoding_type">>
                   /\ DOMAIN Reduced(c).val = {"encoding_type"}
                   /\ Reduced(c).val["encoding_type"] = EncodingTypeOf(c)
                   /\ c \notin SeqToSet(log[args.mode].calls)

\* two partitions, a column of a protectable type that is empty in both, beside
\* a column that is not
C4_Witness ==
    /\ ReduceWrote
    /\ Len(partials[args.mode]) = 2
    /\ \E c, d \in SeqToSet(args.columns) :
           /\ EncodingTypeOf(c) \in VALUE_PROTECTION_ENCODING_TYPES
           /\ NonEmptyPartitions(c) = {}
           /\ NonEmptyPartitions(d) # {}
           /\ Reduced(c).keys = <<"encoding_type">>
           /\ d \in SeqToSet(log[args.mode].calls)

\* the non-degenerate columns of a protectable encoding type
ProtectableReduced ==
    {c \in SeqToSet(args.columns) :
        /\ NonEmptyPartitions(c) # {}
        /\ EncodingTypeOf(c) \in VALUE_PROTECTION_ENCODING_TYPES}

\* C5 as stated: encoding_type first, value_protection second, then the
\* type-specific fields of the reducer.
C5_Original ==
    ReduceWrote =>
        \A c \in ProtectableReduced :
            SubSeq(Reduced(c).keys, 1, 3)
                = <<"encoding_type", "value_protection", "cardinalities">>

\* C5: for every non-degenerate column of a protectable encoding type the
\* fields are emitted in the order value_protection first, encoding_type
\* second, then the type-specific fields returned by the reducer.
C5_FieldOrder ==
    ReduceWrote =>
        \A c \in ProtectableReduced :
            /\ SubSeq(Reduced(c).keys, 1, 3)
                   = <<"value_protection", "encoding_type", "cardinalities">>
            /\ Reduced(c).val["value_protection"] = args.value_protection
            /\ Reduced(c).val["encoding_type"] = EncodingTypeOf(c)

\* a written artifact with a non-degenerate protectable column, reduced
\* without value protection
C5_Witness ==
    /\ ReduceWrote
    /\ ~args.value_protection
    /\ \E c \in ProtectableReduced : Reduced(c).keys[1] = "value_protection"

\* the tables of the columns before position idx, and the rank of a table
TablesBefore(idx) == {args.columns[m].table : m \in 1..(idx - 1)}
TableRank(idx) ==
    LET first == CHOOSE n \in 1..idx :
                     /\ args.columns[n].table = args.columns[idx].table
                     /\ \A m \in 1..(n - 1) : args.columns[m].table # args.columns[idx].table
    IN  Cardinality(TablesBefore(first))

\* C6: the identifiers depend on the column order of the first partition
\* document alone: the table index is the rank of the column's table among the
\* tables in first-seen order, the column index the position of the column in
\* the whole order (so no two columns share one), whatever the partitions hold
\* and whichever columns are degenerate.  Both are given here as functions of
\* the column order only, so two reductions with one order agree.
C6_Identifiers ==
    ReduceWrote =>
        /\ artifact[args.mode].doc.columns.keys = partials[args.mode][1].columns.keys
        /\ \A idx \in DOMAIN args.columns :
               LET c == args.columns[idx]
               IN  NonEmptyPartitions(c) # {}
                       => /\ Reduced(c).val[ARGN_TABLE] = <<"t", TableRank(idx)>>
                          /\ Reduced(c).val[ARGN_COLUMN] = <<"c", idx - 1>>
        /\ \A c, d \in SeqToSet(args.columns) :
               (c # d /\ NonEmptyPartitions(c) # {} /\ NonEmptyPartitions(d) # {})
                   => Reduced(c).val[ARGN_COLUMN] # Reduced(d).val[ARGN_COLUMN]

\* two columns of two tables, the second table first seen at the second column,
\* both reduced, one of them empty in some partition
C6_Witness ==
    /\ ReduceWrote
    /\ Len(args.columns) = 2
    /\ args.columns[1].table # args.columns[2].table
    /\ NonEmptyPartitions(args.columns[1]) # {}
    /\ NonEmptyPartitions(args.columns[2]) # {}
    /\ NonEmptyPartitions(args.columns[1]) # NonEmptyPartitions(args.columns[2])
    /\ Reduced(args.columns[2]).val[ARGN_TABLE] = <<"t", 1>>
    /\ Reduced(args.columns[2]).val[ARGN_COLUMN] = <<"c", 1>>

\* the first partition in which column c is non-degenerate
FirstNonEmpty(c) ==
    CHOOSE p \in NonEmptyPartitions(c) : \A q \in NonEmptyPartitions(c) : p <= q

\* C7 as stated: in mode ctx the first partition's document decides, also
\* when the column is degenerate there.
C7_Original ==
    ReduceWrote =>
        \A c \in SeqToSet(args.columns) :
            NonEmptyPartitions(c) # {}
                => Reduced(c).val[ARGN_PROCESSOR]
                       = IF args.mode = "tgt" THEN TGT
                         ELSE IF "seq_len" \in DOMAIN PartialsOf(c)[1].val
                              THEN CTXSEQ ELSE CTXFLT

\* C7: a non-degenerate column gets TGT in mode tgt; in mode ctx it gets
\* CTXSEQ if its partial stats in the first partition in which it is
\* non-degenerate hold seq_len, and CTXFLT otherwise.
C7_Processor ==
    ReduceWrote =>
        \A c \in SeqToSet(args.columns) :
            NonEmptyPartitions(c) # {}
                => Reduced(c).val[ARGN_PROCESSOR]
                       = IF args.mode = "tgt" THEN TGT
                         ELSE IF "seq_len" \in DOMAIN PartialsOf(c)[FirstNonEmpty(c)].val
                              THEN CTXSEQ ELSE CTXFLT

\* mode ctx, a column that is degenerate in the first partition and sequential
\* in the second, beside a flat one
C7_Witness ==
    /\ ReduceWrote
    /\ args.mode = "ctx"
    /\ \E c, d \in SeqToSet(args.columns) :
           /\ NonEmptyPartitions(c) = {2}
           /\ Reduced(c).val[ARGN_PROCESSOR] = CTXSEQ
           /\ NonEmptyPartitions(d) # {}
           /\ Reduced(d).val[ARGN_PROCESSOR] = CTXFLT

(***************************************************************************)
(* Claims about a run of analyze (Spec).                                   *)
(***************************************************************************)
Ended == pc \in {"done", "failed"}

\* the columns of table t in the schema of the run
SchemaColumns(t) == IF t = "tgt" THEN TgtColumns(args.schema) ELSE CtxColumns(args.schema)

\* C8: for each table of the run, analyze either completes the reduction of
\* the table and writes its artifact exactly once, or fails with no artifact
\* of the table in the workspace afterwards (the directory reset removes a
\* stale one); no artifact is written from a reduction that raised.
C8_ArtifactAllOrNothing ==
    \A t \in RunTables :
        /\ log[t].writes <= 1
        /\ log[t].raised > 0 => log[t].writes = 0
        /\ (pc # "start" /\ artifact[t].present)
               => /\ log[t].writes = 1
                  /\ log[t].raised = 0
                  /\ artifact[t].doc.columns.keys = SchemaColumns(t)
        /\ Ended
               => \/ /\ log[t].reduced = 1
                     /\ log[t].raised = 0
                     /\ log[t].writes = 1
                     /\ artifact[t].present
                  \/ /\ pc = "failed"
                     /\ log[t].writes = 0
                     /\ ~artifact[t].present
        /\ pc = "done" => artifact[t].present

\* a run on a stale workspace that failed after its first partition, with no
\* artifact left
C8_Witness ==
    /\ pc = "failed"
    /\ args.stale
    /\ args.has_context
    /\ i >= 1
    /\ partials.tgt # <<>>
    /\ \A t \in RunTables : ~artifact[t].present

\* C9: when analyze returns, no partial-stats file of the target or of the
\* context table is left, and partial files are unlinked only after the
\* artifacts of all tables of the run are written.
C9_PartialsDeleted ==
    /\ pc = "done" => (partials.tgt = <<>> /\ partials.ctx = <<>>)
    /\ \A t \in {"tgt", "ctx"} :
           log[t].unlinked
               => \A u \in RunTables : log[u].writes = 1 /\ artifact[u].present

\* a returned run of two partitions without context, on a workspace that held
\* stale partial files of a context table
C9_Witness ==
    /\ pc = "done"
    /\ ~args.has_context
    /\ args.stale
    /\ Len(args.parts) >= 2
    /\ log.ctx.unlinked
    /\ partials.ctx = <<>>

\* the columns of table t whose tag no statistician is registered for
Unregistered(t) ==
    {c \in SeqToSet(SchemaColumns(t)) : EncodingTypeOf(c) \notin RegisteredEncodingTypes}

\* the partitions in which table t has rows
PartitionsWithRows(t) ==
    IF t = "tgt" THEN {n \in DOMAIN tgt_pqt_partitions : tgt_pqt_partitions[n].keys # <<>>}
    ELSE {n \in DOMAIN ctx_pqt_partitions : ctx_pqt_partitions[n].keys # <<>>}

\* C10 as stated: every column of an unregistered tag fails the run, also one
\* without values in any partition.
C10_Original ==
    \A t \in RunTables :
        Unregistered(t) # {} => (pc # "done" /\ log[t].writes = 0)

\* C10: a column of an unregistered tag that has values in at least one
\* partition makes the run fail, in partition analysis or in reduction, with
\* no artifact written for its table; a column of such a tag without values in
\* any partition raises nothing and is reduced to {encoding_type}.
C10_UnregisteredFatal ==
    \A t \in RunTables :
        /\ (Unregistered(t) # {} /\ PartitionsWithRows(t) # {})
               => /\ pc \in {"start", "partitions", "failed"}
                  /\ \A n \in PartitionsWithRows(t) : i < n
                  /\ log[t].writes = 0
                  /\ pc # "start" => ~artifact[t].present
        /\ (Unregistered(t) # {} /\ PartitionsWithRows(t) = {} /\ artifact[t].present
            /\ pc # "start")
               => \A c \in Unregistered(t) :
                      artifact[t].doc.columns.val[c].keys = <<"encoding_type">>

\* a run with context that failed in its second partition, the first in which
\* the context column of the unregistered tag has values
C10_Witness ==
    /\ pc = "failed"
    /\ args.has_context
    /\ args.schema = "ctx_unregistered"
    /\ ~args.ctx_short
    /\ PartitionsWithRows("ctx") = {2}
    /\ i = 1
    /\ Len(partials.tgt) = 2
    /\ Len(partials.ctx) = 1

\* target and context partitions disagree: in number, or in the ids of a
\* pair at the same position
PartitionsDisagree ==
    /\ args.has_context
    /\ \/ Len(tgt_pqt_partitions) # Len(ctx_pqt_partitions)
       \/ \E n \in DOMAIN tgt_pqt_partitions \cap DOMAIN ctx_pqt_partitions :
              tgt_pqt_partitions[n].partition_id # ctx_pqt_partitions[n].partition_id

\* C11: with a context table, when target and context partitions differ in
\* number or a pair at the same position differs in its partition id, the
\* run fails before _analyze_reduce is started for any table and no artifact
\* is written: the loop never passes the first pair that differs.
C11_PartitionMismatchFatal ==
    PartitionsDisagree
        => /\ pc \in {"start", "partitions", "failed"}
           /\ \A t \in {"tgt", "ctx"} : log[t].reduced = 0 /\ log[t].writes = 0
           /\ pc # "start" => \A t \in {"tgt", "ctx"} : ~artifact[t].present
           /\ Ended => ret.error = "RuntimeError"
           /\ \A n \in DOMAIN tgt_pqt_partitions \cap DOMAIN ctx_pqt_partitions :
                  tgt_pqt_partitions[n].partition_id # ctx_pqt_partitions[n].partition_id
                      => i < n

\* a run with context on a stale workspace whose second pair of partitions
\* differs in its id: the first partition was analyzed, the second raised
\* after its target stats were written
C11_Witness ==
    /\ pc = "failed"
    /\ args.has_context
    /\ args.stale
    /\ ~args.ctx_short
    /\ args.schema = "registered"
    /\ Len(args.parts) = 2
    /\ args.parts[1] = "trn"
    /\ args.parts[2] = "mismatch"
    /\ i = 1
    /\ Len(partials.tgt) = 2
    /\ Len(partials.ctx) = 1
    /\ ~artifact.tgt.present

(***************************************************************************)
(* Claims about _analyze_seq_len (SpecKeys).                               *)
(***************************************************************************)
\* the parents of the call, and the number of child rows that link to key k
Parents == SeqToSet(args.ctx_primary_keys)
Children(k) == Cardinality({n \in DOMAIN args.tgt_context_keys : args.tgt_context_keys[n] = k})

\* the parents with exactly l children
ParentsOfLength(l) == {p \in Parents : Children(p) = l}

\* the count the histogram holds for length l
CountAt(h, l) == IF l \in DOMAIN h THEN h[l] ELSE 0

\* C12: the histogram _analyze_seq_len returns has one count at length l for
\* every parent with exactly l child rows, zero-child parents included; its
\* keys are non-negative integers, and its counts sum to the number of
\* distinct keys among parents and children.  When every child links to a
\* parent, the count at l is exactly the number of parents with l children.
C12_SeqLenHistogram ==
    pc = "returned_cnt_lengths"
        => LET h == ret.cnt_lengths
               distinct == Parents \cup SeqToSet(args.tgt_context_keys)
           IN  /\ DOMAIN h \subseteq 0..MaxRows
               /\ \A l \in DOMAIN h : h[l] >= 1
               /\ \A l \in 0..MaxRows : CountAt(h, l) >= Cardinality(ParentsOfLength(l))
               /\ SumSeq([n \in 1..(MaxRows + 1) |-> CountAt(h, n - 1)])
                      = Cardinality(distinct)
               /\ SeqToSet(args.tgt_context_keys) \subseteq Parents
                      => \A l \in 0..MaxRows :
                             CountAt(h, l) = Cardinality(ParentsOfLength(l))

\* a call with a repeated parent key, a parent without children and a parent
\* with two children
C12_Witness ==
    /\ pc = "returned_cnt_lengths"
    /\ Len(args.ctx_primary_keys) > Cardinality(Parents)
    /\ ParentsOfLength(0) # {}
    /\ ParentsOfLength(2) # {}
    /\ SeqToSet(args.tgt_context_keys) \subseteq Parents
    /\ CountAt(ret.cnt_lengths, 0) = 1
    /\ CountAt(ret.cnt_lengths, 2) = 1

(***************************************************************************)
(* Claims about the table-level fields of the target artifact.             *)
(***************************************************************************)
\* the number of records of sequence length l in the table-level histograms
\* of all target partitions, and the number of all records
TableSamplesAt(l) == SumSeq([p \in DOMAIN partials.tgt |-> partials.tgt[p].seq_len[l]])
TableSampleCount == SumSeq([l \in 1..(MaxLen + 1) |-> TableSamplesAt(l - 1)])

\* C13: in every target artifact, is_sequential is true iff the min or the
\* max of the table-level seq_len summary of the same artifact is not 1; that
\* summary is reduced with protection whatever the caller's flag, so that a
\* table of at most 10 records is never sequential, and a table in which the
\* trimming cannot leave records of length 1 alone always is.
C13_IsSequential ==
    (ReduceWrote /\ args.mode = "tgt")
        => LET doc == artifact.tgt.doc
           IN  /\ doc.is_sequential = (doc.seq_len.min # 1 \/ doc.seq_len.max # 1)
               /\ doc.seq_len.value_protection = TRUE
               /\ TableSampleCount <= ProtectFloor => ~doc.is_sequential
               /\ TableSamplesAt(1) < TableSampleCount - 2 * TrimCount => doc.is_sequential

\* a target artifact of a table whose records have no or one child: after
\* the trimming the summary has min 0 and max 1, and the table is sequential
C13_Witness ==
    /\ ReduceWrote
    /\ args.mode = "tgt"
    /\ ~args.value_protection
    /\ args.table_hist = "optional"
    /\ artifact.tgt.doc.seq_len.min = 0
    /\ artifact.tgt.doc.seq_len.max = 1
    /\ artifact.tgt.doc.is_sequential

\* the target artifact this run wrote
TgtWritten == pc # "start" /\ log.tgt.writes = 1 /\ artifact.tgt.present

\* the records of partition n: the rows of its context file; without a
\* context table, the distinct context keys of its target rows, or the
\* target rows themselves when the table has no context key
RecordCount(n) ==
    IF args.has_context THEN Len(ctx_pqt_partitions[n].keys)
    ELSE IF args.with_context_key THEN Cardinality(SeqToSet(tgt_pqt_partitions[n].keys))
    ELSE Len(tgt_pqt_partitions[n].keys)

\* the records of all partitions whose id carries the tag
RecordsTagged(tag) ==
    SumSeq([n \in DOMAIN tgt_pqt_partitions |->
               IF tgt_pqt_partitions[n].partition_id.split = tag THEN RecordCount(n)
               ELSE 0])

\* C14: in the target artifact, no_of_training_records is the sum of the
\* record counts of the partitions tagged trn and no_of_validation_records
\* that of the partitions tagged val; every partition counts for exactly one
\* of the two, so that they add up to the records of all partitions.
C14_RecordCounts ==
    TgtWritten
        => LET doc == artifact.tgt.doc
           IN  /\ doc.no_of_training_records = RecordsTagged("trn")
               /\ doc.no_of_validation_records = RecordsTagged("val")
               /\ \A n \in DOMAIN tgt_pqt_partitions :
                      tgt_pqt_partitions[n].partition_id.split \in {"trn", "val"}
               /\ doc.no_of_training_records + doc.no_of_validation_records
                      = SumSeq([n \in DOMAIN tgt_pqt_partitions |-> RecordCount(n)])

\* a returned run without context over a validation and a training
\* partition, the latter with three rows of two distinct context keys
C14_Witness ==
    /\ pc = "done"
    /\ ~args.has_context
    /\ args.with_context_key
    /\ args.parts = <<"val", "trn">>
    /\ TgtWritten
    /\ artifact.tgt.doc.no_of_training_records = 2
    /\ artifact.tgt.doc.no_of_validation_records = 1

(***************************************************************************)
(* Claims about the progress ticks of analyze.                             *)
(***************************************************************************)
\* C15: over N target partitions, progress gets one tick after each
\* partition that completes, with total N + 1 and completed the number of
\* partitions finished so far, strictly increasing and never above total,
\* and one more tick when the run returns.
C15_ProgressTicks ==
    LET N == Len(tgt_pqt_partitions)
    IN  /\ Len(ticks) = i + (IF pc = "done" THEN 1 ELSE 0)
        /\ \A n \in 1..i : ticks[n] = <<n, N + 1>>
        /\ \A n \in DOMAIN ticks : ticks[n][1] <= ticks[n][2]
        /\ \A n \in 1..(Len(ticks) - 1) : ticks[n][1] < ticks[n + 1][1]

(***************************************************************************)
(* Claims about the scope of the value_protection flag of analyze.         *)
(***************************************************************************)
\* the context artifact this run wrote
CtxWritten == pc # "start" /\ log.ctx.writes = 1 /\ artifact.ctx.present

\* the columns of table t that are subject to value protection
Protectable(t) ==
    {c \in SeqToSet(SchemaColumns(t)) : EncodingTypeOf(c) \in VALUE_PROTECTION_ENCODING_TYPES}

\* column c of the artifact of table t carries value_protection = v
ProtectionIs(t, c, v) ==
    LET col == artifact[t].doc.columns.val[c]
    IN  HasKey(col, "value_protection") /\ col.val["value_protection"] = v

\* C16 as stated: every protectable context column of the context artifact
\* has value_protection = true, also one without values in any partition.
C16_Original ==
    /\ CtxWritten => \A c \in Protectable("ctx") : ProtectionIs("ctx", c, TRUE)
    /\ TgtWritten => artifact.tgt.doc.seq_len.value_protection = TRUE

\* C16: the flag of analyze reaches only the reduction of the target
\* columns.  For both values of the flag, every protectable context column
\* that has values in at least one partition has value_protection = true in
\* the context artifact, and the table-level seq_len summary of the target
\* artifact has value_protection = true; a protectable target column with
\* values carries the flag as given.  A column without values in any
\* partition has no value_protection field.
C16_ProtectionScope ==
    /\ CtxWritten
           => \A c \in Protectable("ctx") :
                  IF PartitionsWithRows("ctx") # {} THEN ProtectionIs("ctx", c, TRUE)
                  ELSE ~HasKey(artifact.ctx.doc.columns.val[c], "value_protection")
    /\ TgtWritten
           => /\ artifact.tgt.doc.seq_len.value_protection = TRUE
              /\ \A c \in Protectable("tgt") :
                     IF PartitionsWithRows("tgt") # {}
                     THEN ProtectionIs("tgt", c, args.value_protection)
                     ELSE ~HasKey(artifact.tgt.doc.columns.val[c], "value_protection")

\* a returned run with context and the flag off: the target column is stored
\* unprotected, the context column of the same type protected
C16_Witness ==
    /\ pc = "done"
    /\ args.has_context
    /\ ~args.value_protection
    /\ PartitionsWithRows("ctx") # {}
    /\ PartitionsWithRows("tgt") # {}
    /\ CtxWritten
    /\ TgtWritten
    /\ ProtectionIs("tgt", QCol("A", "x"), FALSE)
    /\ ProtectionIs("ctx", QCol("A", "x"), TRUE)
    /\ artifact.tgt.doc.seq_len.value_protection = TRUE
====
